---------------------------- MODULE Spec2Model ----------------------------
(***************************************************************************)
(* HSRP validation library (src/Hssrp_Validation.py).                      *)
(*                                                                         *)
(* A Python str is modelled as the sequence of its characters (one-char    *)
(* strings).  A multi-line text is modelled as the sequence of the lines   *)
(* output.splitlines() yields.  A dict is a function whose DOMAIN is the   *)
(* key set.  A behaviour of Spec is one call of one entry point:           *)
(* parse_show_standby_brief, validate_hsrp, or main.                       *)
(***************************************************************************)
EXTENDS Integers, Sequences, FiniteSets, TLC

VARIABLES
    p_pc,                \* parse_show_standby_brief: "idle" | "loop" | "done"
    lines,               \* the lines of output.splitlines() iterated so far
    standby_data,        \* parse_show_standby_brief's local dict
    v_pc,                \* validate_hsrp: "idle" | "loop" | "raised" | "done"
    v_standby_data,      \* validate_hsrp's standby_data argument
    device_name,         \* validate_hsrp's device_name argument
    expected_conditions, \* the entries of expected_conditions iterated so far
    results,             \* validate_hsrp's local dict
    m_pc,                \* main: "idle" | "loop" | "done"
    dev,                 \* main: index of the next device of ssh_details
    outputs,             \* main: what run_command returned, per device tried
    attempted,           \* main: device names in the order they were tried
    final_results        \* main's final_results dict

vars == <<p_pc, lines, standby_data, v_pc, v_standby_data, device_name,
          expected_conditions, results, m_pc, dev, outputs, attempted,
          final_results>>

pvars == <<p_pc, lines, standby_data>>
vvars == <<v_pc, v_standby_data, device_name, expected_conditions, results>>
mvars == <<m_pc, dev, outputs, attempted, final_results>>

-----------------------------------------------------------------------------
(* Bounds of the model *)

MaxLines == 2

MaxConds == 3

MaxOutLines == 2

-----------------------------------------------------------------------------
(* Characters and strings *)

EmptyStr == << >>

EmptyDict == << >>

Whitespace == {" "}

Digits == {"0", "1", "2", "3", "4", "5", "6", "7", "8", "9"}

UpperCase == <<"A", "B", "C", "D", "E", "F", "G", "H", "I", "J", "K", "L", "M",
               "N", "O", "P", "Q", "R", "S", "T", "U", "V", "W", "X", "Y", "Z">>

LowerCase == <<"a", "b", "c", "d", "e", "f", "g", "h", "i", "j", "k", "l", "m",
               "n", "o", "p", "q", "r", "s", "t", "u", "v", "w", "x", "y", "z">>

LowerChar(c) ==
    IF \E k \in DOMAIN UpperCase : UpperCase[k] = c
    THEN LowerCase[CHOOSE k \in DOMAIN UpperCase : UpperCase[k] = c]
    ELSE c

\* str.lower()
Lower(s) == [k \in 1..Len(s) |-> LowerChar(s[k])]

\* faulty variant of DictPut: a key already present keeps its value
DictPutKeepFirst(d, k, v) ==
    [x \in (DOMAIN d) \cup {k} |-> IF x \in DOMAIN d THEN d[x] ELSE v]

\* d[k] = v
DictPut(d, k, v) == [x \in (DOMAIN d) \cup {k} |-> IF x = k THEN v ELSE d[x]]

\* d.get(k, default)
DictGet(d, k, default) == IF k \in DOMAIN d THEN d[k] ELSE default

-----------------------------------------------------------------------------
(* The pattern of parse_show_standby_brief and re.match *)

\* faulty variant of pattern: the third group written (\S+)
patternAnyThird == <<"S", "s", "S", "s", "S", "s", "S", "s", "S", "s", "S", "s", "S">>

\* (\S+)\s+(\S+)\s+(\d+)\s+(\S+)\s+(\S+)\s+(\S+)\s+(\S+): thirteen items, each
\* a character class under a greedy +; capture group g is item 2g-1.
pattern == <<"S", "s", "S", "s", "d", "s", "S", "s", "S", "s", "S", "s", "S">>

InClass(c, cls) ==
    CASE cls = "S" -> c \notin Whitespace
      [] cls = "s" -> c \in Whitespace
      [] cls = "d" -> c \in Digits

RECURSIVE RunLength(_, _, _)
\* how many characters of the class follow, from position pos on
RunLength(line, pos, cls) ==
    IF pos > Len(line) \/ ~InClass(line[pos], cls) THEN 0
    ELSE 1 + RunLength(line, pos + 1, cls)

NoMatch == [ok |-> FALSE, ends |-> << >>]

RECURSIVE MatchFrom(_, _, _), TryLength(_, _, _, _)
\* backtracking match of items k.. at position pos: the greedy + takes the
\* longest run first and gives characters back one at a time.  ends[j] is the
\* position after item j.
MatchFrom(line, k, pos) ==
    IF k > Len(pattern) THEN [ok |-> TRUE, ends |-> << >>]
    ELSE TryLength(line, k, pos, RunLength(line, pos, pattern[k]))

TryLength(line, k, pos, n) ==
    IF n = 0 THEN NoMatch
    ELSE LET r == MatchFrom(line, k + 1, pos + n)
         IN  IF r.ok THEN [ok |-> TRUE, ends |-> <<pos + n>> \o r.ends]
             ELSE TryLength(line, k, pos, n - 1)

\* re.match(pattern, line): anchored at the start of the line only
ReMatch(line) == MatchFrom(line, 1, 1)

\* match.group(g)
MatchGroup(line, m, g) ==
    LET item  == 2 * g - 1
        first == IF item = 1 THEN 1 ELSE m.ends[item - 1]
    IN  SubSeq(line, first, m.ends[item] - 1)

-----------------------------------------------------------------------------
(* parse_show_standby_brief *)

\* one iteration of the loop over output.splitlines()
ParseStep(data, line) ==
    LET match == ReMatch(line)
    IN  IF match.ok
        THEN DictPut(data, MatchGroup(line, match, 2),
                     Lower(MatchGroup(line, match, 4)))
        ELSE data

RECURSIVE ParseFrom(_, _, _)
ParseFrom(data, text, k) ==
    IF k > Len(text) THEN data
    ELSE ParseFrom(ParseStep(data, text[k]), text, k + 1)

\* the whole function, on the lines of its argument
parse_show_standby_brief(text) == ParseFrom(EmptyDict, text, 1)

-----------------------------------------------------------------------------
(* validate_hsrp *)

\* A value of an expectation entry: a str, a bool, or no value under the key.
StrVal(s) == [kind |-> "str", str |-> s, bool |-> FALSE]

BoolVal(b) == [kind |-> "bool", str |-> EmptyStr, bool |-> b]

Absent == [kind |-> "absent", str |-> EmptyStr, bool |-> FALSE]

\* faulty variant of ConditionGet: condition[key] with no default
ConditionIndex(condition, key) == condition[key]

\* condition.get(key, '')
ConditionGet(condition, key) ==
    IF condition[key].kind = "absent" THEN StrVal(EmptyStr) ELSE condition[key]

\* whether value.lower() exists: a str has the method, a bool raises
\* AttributeError
HasLower(value) == value.kind = "str"

\* faulty variant of Truthy: `is not None` in place of the truth value
TruthyNotNone(s) == TRUE

\* truth value of a str
Truthy(s) == Len(s) > 0

active == <<"a", "c", "t", "i", "v", "e">>

standby == <<"s", "t", "a", "n", "d", "b", "y">>

\* f"grp{group}"
GrpKey(group) == <<"g", "r", "p">> \o group

pass == <<"pass">>

\* f"Failed : {device_name} No longer Active"
FailedActive(name) == <<"Failed : ", name, " No longer Active">>

\* f"Failed : {device_name} No longer Standby"
FailedStandby(name) == <<"Failed : ", name, " No longer Standby">>

\* faulty variant of ActiveRecord: the failure message of the other branch
ActiveRecordOtherMessage(actual_state, name) ==
    DictPut(EmptyDict, "Active",
            IF actual_state = active THEN pass ELSE FailedStandby(name))

\* the dict assigned when expected_active is truthy
ActiveRecord(actual_state, name) ==
    DictPut(EmptyDict, "Active",
            IF actual_state = active THEN pass ELSE FailedActive(name))

\* faulty variant of StandbyRecord: the comparison of the other branch
StandbyRecordOtherState(res, key, actual_state, name) ==
    DictPut(DictGet(res, key, EmptyDict), "Standby",
            IF actual_state = active THEN pass ELSE FailedStandby(name))

\* the dict assigned when expected_standby is truthy
StandbyRecord(res, key, actual_state, name) ==
    DictPut(DictGet(res, key, EmptyDict), "Standby",
            IF actual_state = standby THEN pass ELSE FailedStandby(name))

\* one iteration of the loop over expected_conditions
ValidateStep(res, condition, data, name) ==
    LET group == condition.Group
        a     == ConditionGet(condition, "ExpectedActiveState")
        s     == ConditionGet(condition, "ExpectedStandbyState")
    IN  IF ~HasLower(a) \/ ~HasLower(s)
        THEN [raised |-> TRUE, results |-> res]
        ELSE LET expected_active  == Lower(a.str)
                 expected_standby == Lower(s.str)
                 actual_state     == DictGet(data, group, EmptyStr)
                 key              == GrpKey(group)
                 r1 == IF Truthy(expected_active)
                       THEN DictPut(res, key, ActiveRecord(actual_state, name))
                       ELSE res
                 r2 == IF Truthy(expected_standby)
                       THEN DictPut(r1, key,
                                    StandbyRecord(r1, key, actual_state, name))
                       ELSE r1
             IN  [raised |-> FALSE, results |-> r2]

RECURSIVE ValidateFrom(_, _, _, _, _)
ValidateFrom(res, conditions, k, data, name) ==
    IF k > Len(conditions) THEN [raised |-> FALSE, results |-> res]
    ELSE LET r == ValidateStep(res, conditions[k], data, name)
         IN  IF r.raised THEN r
             ELSE ValidateFrom(r.results, conditions, k + 1, data, name)

\* the whole function
validate_hsrp(data, conditions, name) ==
    ValidateFrom(EmptyDict, conditions, 1, data, name)

-----------------------------------------------------------------------------
(* SSHClient.run_command and main *)

None == [kind |-> "None", text |-> << >>]

StrOut(text) == [kind |-> "str", text |-> text]

IsBlank(line) == \A k \in 1..Len(line) : line[k] \in Whitespace

RECURSIVE LStrip(_)
LStrip(line) ==
    IF line # << >> /\ Head(line) \in Whitespace THEN LStrip(Tail(line))
    ELSE line

RECURSIVE RStrip(_)
RStrip(line) ==
    IF line # << >> /\ line[Len(line)] \in Whitespace
    THEN RStrip(SubSeq(line, 1, Len(line) - 1))
    ELSE line

RECURSIVE StripStart(_)
StripStart(text) ==
    IF text = << >> THEN << >>
    ELSE IF IsBlank(Head(text)) THEN StripStart(Tail(text))
    ELSE <<LStrip(Head(text))>> \o Tail(text)

RECURSIVE StripEnd(_)
StripEnd(text) ==
    IF text = << >> THEN << >>
    ELSE IF IsBlank(text[Len(text)])
         THEN StripEnd(SubSeq(text, 1, Len(text) - 1))
    ELSE SubSeq(text, 1, Len(text) - 1) \o <<RStrip(text[Len(text)])>>

\* str.strip() of a text: whitespace, line ends included, goes from both ends
Strip(text) == StripEnd(StripStart(text))

\* run_command: the connection or the command raised (the except clause
\* returns None), or stdout was read, decoded and stripped
run_command(outcome) ==
    IF outcome.raised THEN None ELSE StrOut(Strip(outcome.stdout))

\* faulty variant of OutputTruthy: `if output is not None:`
OutputNotNone(output) == output.kind = "str"

\* `if output:` - None and the empty str are false
OutputTruthy(output) == output.kind = "str" /\ output.text # << >>

expected_conditions_cpe1 ==
    << [Group |-> <<"1">>,
        ExpectedActiveState |-> StrVal(<<"A", "c", "t", "i", "v", "e">>),
        ExpectedStandbyState |-> Absent],
       [Group |-> <<"2">>,
        ExpectedActiveState |-> Absent,
        ExpectedStandbyState |-> StrVal(<<"S", "t", "a", "n", "d", "b", "y">>)] >>

expected_conditions_cpe2 ==
    << [Group |-> <<"1">>,
        ExpectedActiveState |-> StrVal(<<"A", "c", "t", "i", "v", "e">>),
        ExpectedStandbyState |-> Absent],
       [Group |-> <<"2">>,
        ExpectedActiveState |-> Absent,
        ExpectedStandbyState |-> StrVal(<<"S", "t", "a", "n", "d", "b", "y">>)] >>

ssh_details ==
    << [device_name |-> "CPE1", conditions |-> expected_conditions_cpe1],
       [device_name |-> "CPE2", conditions |-> expected_conditions_cpe2] >>

\* the body of `for device in ssh_details`
MainStep(report, device, output) ==
    IF OutputTruthy(output)
    THEN DictPut(report, device.device_name,
                 validate_hsrp(parse_show_standby_brief(output.text),
                               device.conditions, device.device_name).results)
    ELSE report

-----------------------------------------------------------------------------
(* Inputs the entry points are called with *)

Interface == <<"G", "i">>

Groups == {<<"1">>, <<"2">>}

\* third field: all digits, or digits followed by a letter
Priorities == {<<"9", "0">>, <<"9", "x">>}

StateTokens == {<<"A", "c", "t", "i", "v", "e">>,
                <<"S", "t", "a", "n", "d", "b", "y">>}

\* how many fields a line has: none, too few, seven, too many
TokenCounts == {0, 6, 7, 8}

Fields(g, p, s) == <<Interface, g, p, s, <<"l">>, <<"b">>, <<"v">>, <<"x">>>>

RECURSIVE Join(_)
Join(toks) ==
    IF toks = << >> THEN << >>
    ELSE IF Len(toks) = 1 THEN toks[1]
    ELSE toks[1] \o <<" ">> \o Join(Tail(toks))

Render(lead, toks) == (IF lead THEN <<" ">> ELSE << >>) \o Join(toks)

\* the lines parse_show_standby_brief is fed
LineSet ==
    { Render(lead, SubSeq(Fields(g, p, s), 1, n)) :
        lead \in BOOLEAN, n \in TokenCounts, g \in Groups,
        p \in Priorities, s \in StateTokens }

ObservedStates == {active, standby, <<"i", "n", "i", "t">>}

\* the standby_data arguments of validate_hsrp
ObservedMappings == UNION { [G -> ObservedStates] : G \in SUBSET Groups }

DeviceNames == {"CPE1", "CPE2"}

FlagValues == {Absent, StrVal(<<"A", "c", "t", "i", "v", "e">>), BoolVal(TRUE)}

\* the entries of the expected_conditions argument of validate_hsrp
Conditions ==
    [Group : Groups, ExpectedActiveState : FlagValues,
     ExpectedStandbyState : FlagValues]

\* the lines a device answers `show standby brief` with
DeviceLines ==
    { << >>,
      Render(FALSE, SubSeq(Fields(<<"1">>, <<"9", "0">>, <<"A", "c", "t", "i", "v", "e">>), 1, 7)),
      Render(FALSE, SubSeq(Fields(<<"2">>, <<"9", "0">>, <<"S", "t", "a", "n", "d", "b", "y">>), 1, 7)),
      Render(TRUE,  SubSeq(Fields(<<"2">>, <<"9", "0">>, <<"A", "c", "t", "i", "v", "e">>), 1, 7)),
      Render(FALSE, SubSeq(Fields(<<"1">>, <<"9", "0">>, <<"S", "t", "a", "n", "d", "b", "y">>), 1, 8)) }

SeqsUpTo(S, n) == UNION { [1..k -> S] : k \in 0..n }

\* what can happen inside run_command's try block
RunOutcomes ==
    { [raised |-> TRUE, stdout |-> << >>] } \cup
    { [raised |-> FALSE, stdout |-> t] : t \in SeqsUpTo(DeviceLines, MaxOutLines) }

-----------------------------------------------------------------------------
(* The state machine *)

ParseIdle == p_pc = "idle" /\ lines = << >> /\ standby_data = EmptyDict

ValidateIdle ==
    /\ v_pc = "idle"
    /\ v_standby_data = EmptyDict
    /\ device_name = ""
    /\ expected_conditions = << >>
    /\ results = EmptyDict

MainIdle ==
    /\ m_pc = "idle"
    /\ dev = 1
    /\ outputs = << >>
    /\ attempted = << >>
    /\ final_results = EmptyDict

\* parse_show_standby_brief(output) is entered: standby_data = {}
InitParse ==
    /\ p_pc = "loop" /\ lines = << >> /\ standby_data = EmptyDict
    /\ ValidateIdle /\ MainIdle

\* validate_hsrp(standby_data, expected_conditions, device_name) is entered:
\* results = {}
InitValidate ==
    /\ v_pc = "loop"
    /\ v_standby_data \in ObservedMappings
    /\ device_name \in DeviceNames
    /\ expected_conditions = << >>
    /\ results = EmptyDict
    /\ ParseIdle /\ MainIdle

\* main() is entered: final_results = {}
InitMain ==
    /\ m_pc = "loop"
    /\ dev = 1
    /\ outputs = << >>
    /\ attempted = << >>
    /\ final_results = EmptyDict
    /\ ParseIdle /\ ValidateIdle

Init == InitParse \/ InitValidate \/ InitMain

\* the loop of parse_show_standby_brief takes the next line
ParseLine ==
    /\ p_pc = "loop"
    /\ Len(lines) < MaxLines
    /\ \E line \in LineSet :
         /\ lines' = Append(lines, line)
         /\ standby_data' = ParseStep(standby_data, line)
    /\ UNCHANGED <<p_pc, vvars, mvars>>

\* the lines are exhausted: return standby_data
ParseReturn ==
    /\ p_pc = "loop"
    /\ p_pc' = "done"
    /\ UNCHANGED <<lines, standby_data, vvars, mvars>>

\* the loop of validate_hsrp takes the next entry
ValidateCondition ==
    /\ v_pc = "loop"
    /\ Len(expected_conditions) < MaxConds
    /\ \E condition \in Conditions :
         LET r == ValidateStep(results, condition, v_standby_data, device_name)
         IN  /\ expected_conditions' = Append(expected_conditions, condition)
             /\ results' = r.results
             /\ v_pc' = IF r.raised THEN "raised" ELSE "loop"
    /\ UNCHANGED <<v_standby_data, device_name, pvars, mvars>>

\* the entries are exhausted: return results
ValidateReturn ==
    /\ v_pc = "loop"
    /\ v_pc' = "done"
    /\ UNCHANGED <<v_standby_data, device_name, expected_conditions, results,
                   pvars, mvars>>

\* one iteration of main's loop: run the command on the next device, then
\* parse and validate when there is output
MainDevice ==
    /\ m_pc = "loop"
    /\ dev <= Len(ssh_details)
    /\ \E outcome \in RunOutcomes :
         LET device == ssh_details[dev]
             output == run_command(outcome)
         IN  /\ outputs' = Append(outputs, output)
             /\ attempted' = Append(attempted, device.device_name)
             /\ final_results' = MainStep(final_results, device, output)
    /\ dev' = dev + 1
    /\ UNCHANGED <<m_pc, pvars, vvars>>

\* the devices are exhausted: print(json.dumps(final_results))
MainPrint ==
    /\ m_pc = "loop"
    /\ dev > Len(ssh_details)
    /\ m_pc' = "done"
    /\ UNCHANGED <<dev, outputs, attempted, final_results, pvars, vvars>>

Next ==
    \/ ParseLine
    \/ ParseReturn
    \/ ValidateCondition
    \/ ValidateReturn
    \/ MainDevice
    \/ MainPrint

Spec == Init /\ [][Next]_vars

-----------------------------------------------------------------------------
(* The token view of a line, as str.split() gives it *)

RECURSIVE SplitFrom(_, _, _)
SplitFrom(line, pos, cur) ==
    IF pos > Len(line)
    THEN IF cur = << >> THEN << >> ELSE <<cur>>
    ELSE IF line[pos] = " "
         THEN (IF cur = << >> THEN << >> ELSE <<cur>>)
              \o SplitFrom(line, pos + 1, << >>)
         ELSE SplitFrom(line, pos + 1, Append(cur, line[pos]))

Split(line) == SplitFrom(line, 1, << >>)

NTokens(line) == Len(Split(line))

Token(line, k) == Split(line)[k]

LeadingSpace(line) == line # << >> /\ line[1] = " "

AllDigits(tok) ==
    /\ tok # << >>
    /\ \A k \in 1..Len(tok) :
         tok[k] \in {"0", "1", "2", "3", "4", "5", "6", "7", "8", "9"}

\* the lines the parser takes a record from, told by their tokens alone
Fits(line) ==
    /\ ~LeadingSpace(line)
    /\ NTokens(line) >= 7
    /\ AllDigits(Token(line, 3))

\* this step is an iteration of the parser's loop
LineTaken == Len(lines') = Len(lines) + 1

NewLine == lines'[Len(lines')]

\* an expectation flag that is set: a non-empty str
FlagSet(value) == value.kind = "str" /\ value.str # << >>

IsBoolFlag(value) == value.kind = "bool"

Observed(g) == IF g \in DOMAIN v_standby_data THEN v_standby_data[g] ELSE << >>

HasField(key, field) == key \in DOMAIN results /\ field \in DOMAIN results[key]

-----------------------------------------------------------------------------
(* Claims about parse_show_standby_brief *)

\* C4 (as stated): a line that is not exactly seven whitespace-separated
\* tokens adds no entry to the mapping and changes no entry in it.
C4_SkipsAllButSevenTokens ==
    [][(LineTaken /\ NTokens(NewLine) # 7) => standby_data' = standby_data]_vars

C6_LastLineWins ==
    /\ \A g \in DOMAIN standby_data :
         \E k \in 1..Len(lines) :
           /\ Fits(lines[k]) /\ Token(lines[k], 2) = g
           /\ standby_data[g] = Lower(Token(lines[k], 4))
           /\ \A j \in (k + 1)..Len(lines) :
                ~(Fits(lines[j]) /\ Token(lines[j], 2) = g)
    /\ \A k \in 1..Len(lines) :
         Fits(lines[k]) => Token(lines[k], 2) \in DOMAIN standby_data

\* C6 witness: two matching lines for one group with different states; the
\* second one's state is the one kept
C6_Witness ==
    /\ p_pc = "done"
    /\ Len(lines) = 2
    /\ Fits(lines[1]) /\ Fits(lines[2])
    /\ Token(lines[1], 2) = Token(lines[2], 2)
    /\ Lower(Token(lines[1], 4)) # Lower(Token(lines[2], 4))
    /\ standby_data[Token(lines[2], 2)] = Lower(Token(lines[2], 4))

-----------------------------------------------------------------------------
(* Claims about validate_hsrp *)

\* C1 (as stated): after any sequence of entries, the record under "grp"+g
\* holds an Active field if some entry for g had expect-active set, and a
\* Standby field if some entry for g had expect-standby set.
C1_MergeNeverOverwrites ==
    v_pc \in {"loop", "done"} =>
      \A k \in 1..Len(expected_conditions) :
        LET c == expected_conditions[k]
        IN  /\ FlagSet(c.ExpectedActiveState)
                 => HasField(<<"g", "r", "p">> \o c.Group, "Active")
            /\ FlagSet(c.ExpectedStandbyState)
                 => HasField(<<"g", "r", "p">> \o c.Group, "Standby")

\* C2 (as stated): every permutation of the list of entries yields the same
\* result mapping.
C2_OrderIndependent ==
    v_pc = "done" =>
      \A p \in Permutations(1..Len(expected_conditions)) :
        validate_hsrp(v_standby_data,
                      [k \in 1..Len(expected_conditions) |-> expected_conditions[p[k]]],
                      device_name).results = results

\* C3: every field present has the prescribed value: Active is 'pass' exactly
\* when the observed state of the group is "active", else the failure message
\* naming the device; Standby likewise with "standby"; a group that is not
\* observed counts as the empty state.
C3_FieldValues ==
    \A key \in DOMAIN results :
      \E g \in Groups :
        /\ key = <<"g", "r", "p">> \o g
        /\ "Active" \in DOMAIN results[key] =>
             results[key]["Active"] =
               IF Observed(g) = <<"a", "c", "t", "i", "v", "e">>
               THEN <<"pass">>
               ELSE <<"Failed : ", device_name, " No longer Active">>
        /\ "Standby" \in DOMAIN results[key] =>
             results[key]["Standby"] =
               IF Observed(g) = <<"s", "t", "a", "n", "d", "b", "y">>
               THEN <<"pass">>
               ELSE <<"Failed : ", device_name, " No longer Standby">>

\* C3 witness: a returned result with a passing Active field for one group
\* and a failing Standby field for a group the device did not report
C3_Witness ==
    /\ v_pc = "done"
    /\ \E g, h \in Groups :
         /\ g \in DOMAIN v_standby_data /\ h \notin DOMAIN v_standby_data
         /\ HasField(<<"g", "r", "p">> \o g, "Active")
         /\ results[<<"g", "r", "p">> \o g]["Active"] = <<"pass">>
         /\ HasField(<<"g", "r", "p">> \o h, "Standby")
         /\ results[<<"g", "r", "p">> \o h]["Standby"]
              = <<"Failed : ", device_name, " No longer Standby">>

C8_KeysAreAllEntries ==
    v_pc = "done" =>
      DOMAIN results =
        { <<"g", "r", "p">> \o expected_conditions[k].Group :
            k \in 1..Len(expected_conditions) }

\* C8 (amended): the key set of the result is exactly the set of keys
\* "grp"+group of the entries that have at least one flag set; an entry with
\* neither flag adds no key, and no group without such an entry appears, even
\* when the observed mapping reports it.
C8_KeysAreFlaggedEntries ==
    v_pc = "done" =>
      DOMAIN results =
        { <<"g", "r", "p">> \o expected_conditions[k].Group :
            k \in { j \in 1..Len(expected_conditions) :
                      \/ FlagSet(expected_conditions[j].ExpectedActiveState)
                      \/ FlagSet(expected_conditions[j].ExpectedStandbyState) } }

\* C8 witness: a returned result where one entry has a flag, another entry
\* (for a different, observed group) has none, and that group has no key
C8_Witness ==
    /\ v_pc = "done"
    /\ \E j, k \in 1..Len(expected_conditions) :
         /\ FlagSet(expected_conditions[j].ExpectedActiveState)
         /\ ~FlagSet(expected_conditions[k].ExpectedActiveState)
         /\ ~FlagSet(expected_conditions[k].ExpectedStandbyState)
         /\ expected_conditions[k].Group \in DOMAIN v_standby_data
         /\ (<<"g", "r", "p">> \o expected_conditions[j].Group) \in DOMAIN results
         /\ (<<"g", "r", "p">> \o expected_conditions[k].Group) \notin DOMAIN results

\* C9: in every state of validate_hsrp no group record holds 'pass' in both
\* its Active field and its Standby field.
C9_NeverBothPass ==
    \A key \in DOMAIN results :
      ~ /\ "Active" \in DOMAIN results[key]
        /\ "Standby" \in DOMAIN results[key]
        /\ results[key]["Active"] = <<"pass">>
        /\ results[key]["Standby"] = <<"pass">>

\* C9 witness: a record with both fields, of which Standby passes and Active
\* fails
C9_Witness ==
    \E key \in DOMAIN results :
      /\ "Active" \in DOMAIN results[key]
      /\ "Standby" \in DOMAIN results[key]
      /\ results[key]["Standby"] = <<"pass">>
      /\ results[key]["Active"] # <<"pass">>

-----------------------------------------------------------------------------
(* Claims about main *)

\* C10: main tries every configured device once, in list order, whatever the
\* earlier devices did; when it finishes, the report has an entry for a
\* device exactly when run_command returned non-empty output for it, and the
\* entry is the validation of that device's output against that device's
\* expectation list and name.
C10_EveryDeviceOnce ==
    /\ m_pc # "idle" =>
         /\ Len(attempted) = dev - 1
         /\ Len(outputs) = dev - 1
         /\ \A k \in 1..Len(attempted) : attempted[k] = ssh_details[k].device_name
    /\ m_pc = "done" =>
         /\ Len(attempted) = Len(ssh_details)
         /\ \A k \in 1..Len(ssh_details) :
              LET name == ssh_details[k].device_name
              IN  /\ name \in DOMAIN final_results
                       <=> (outputs[k].kind = "str" /\ Len(outputs[k].text) > 0)
                  /\ name \in DOMAIN final_results =>
                       final_results[name] =
                         validate_hsrp(parse_show_standby_brief(outputs[k].text),
                                       ssh_details[k].conditions, name).results
         /\ DOMAIN final_results \subseteq
              { ssh_details[k].device_name : k \in 1..Len(ssh_details) }

\* C10 witness: main finished; the first device's command raised, the second
\* device answered and is the only one reported
C10_Witness ==
    /\ m_pc = "done"
    /\ outputs[1].kind = "None"
    /\ outputs[2].kind = "str" /\ outputs[2].text # << >>
    /\ DOMAIN final_results = {"CPE2"}
    /\ \E key \in DOMAIN final_results["CPE2"] :
         "Active" \in DOMAIN final_results["CPE2"][key]

=============================================================================
